---------------------------- MODULE Spec2Model ----------------------------
(***************************************************************************)
(* A model of the lcsCalendar widget (src/src/lc.js): the calendar math    *)
(* functions, the month table built by #setCalendar, the module-level      *)
(* selection variables, the document click listener and                    *)
(* defaultConclusionCallback.                                              *)
(*                                                                         *)
(* Two specifications share the definitions:                               *)
(*   SpecMath  applies the pure functions to inputs drawn in InitMath;     *)
(*   Spec      is the page: calendars in the document, clicks on them.     *)
(***************************************************************************)
EXTENDS Integers, Sequences, FiniteSets, TLC

VARIABLES
    today,              \* currentYear, currentMonth, currentDate (lc.js 71-85)
    mathArg,            \* the (year, month) a math function is applied to
    mathRes,            \* what the last applied math function returned
    yearSelected, monthSelected, dateSelected,                  \* lc.js 113-115
    selectedYearValue, selectedMonthValue, selectedDateValue,   \* lc.js 116-118
    selectionValue,     \* lc.js 119
    doOnSelection,      \* lc.js 120
    cal,                \* the .lcsCalendar elements of the document
    toConstruct,        \* the configs the page has still to construct
    sinkKind,           \* what the page offers as .getCalendarSelected* elements
    sinks,              \* the values the last handled event wrote to them
    outcome,            \* what the last handled event did and logged
    chosen,             \* history: the year, month and date buttons clicked
                        \* since the last reset of the selection
    instance            \* the object the page's last new lcsCalendar(config)
                        \* made: its fields when validated and on return

vars == << today, mathArg, mathRes, yearSelected, monthSelected, dateSelected,
           selectedYearValue, selectedMonthValue, selectedDateValue,
           selectionValue, doOnSelection, cal, toConstruct, sinkKind, sinks,
           outcome, chosen, instance >>

mathVars == << mathArg, mathRes >>

selVars == << yearSelected, monthSelected, dateSelected, selectedYearValue,
              selectedMonthValue, selectedDateValue, selectionValue >>

pageVars == << doOnSelection, cal, toConstruct, sinkKind, sinks, outcome,
               chosen, instance >>

---------------------------------------------------------------------------
(* Bounds of the model *)

\* the math functions are applied to years 0..MaxEarlyYear and
\* MinLateYear..MaxLateYear, and to months 0..MaxMathMonth
MaxEarlyYear == 101
MinLateYear == 1899
MaxLateYear == 2037
MaxMathMonth == 13

\* the year buttons of a page's calendars run from the current year to
\* YearSpan years after it; the user clicks the month buttons
\* 1..MaxClickMonth and, in a month table, the first and the last DayEdge
\* date cells
YearSpan == 1
MaxClickMonth == 2
DayEdge == 1

\* the constructor is given years within EdgeWidth of the edges of the window
\* of years it accepts, and of the current year
EdgeWidth == 1

MathYears == (0..MaxEarlyYear) \cup (MinLateYear..MaxLateYear)
MathMonths == 0..MaxMathMonth

\* setOrdinalIndicators is applied to the integers 0..MaxOrdinal, to the
\* integers m * 10^e for e in MinBigExp..MaxBigExp, and to the other values
\* of OrdinalInputs
MaxOrdinal == 125
MinBigExp == 19
MaxBigExp == 21

\* the dates the page may be loaded on: new Date() at lc.js 71
Todays == { [year |-> 2024, month |-> 2, date |-> 29],
            [year |-> 2026, month |-> 11, date |-> 3] }

---------------------------------------------------------------------------
(* JavaScript values *)

\* null (lc.js 116-119): 0, which is no year, month or date of a calendar
null == 0

\* the falsy result `false` of getDayOfMonthStart (lc.js 133), tested by
\* `if (firstDayStart)` at lc.js 938
JsFalse == 0

---------------------------------------------------------------------------
(* Calendar math: lc.js 74-78, 109-110, 129-189 *)

currentYear == today.year
currentMonth == today.month
currentDate == today.date
oldestYear == currentYear - 100
newestYear == currentYear + 10
nextYear == currentYear + 1

month31 == {1, 3, 5, 7, 8, 10, 12}
month30 == {4, 6, 9, 11}

\* lc.js 166
isLeapYear(year) ==
    (year % 4 = 0 /\ year % 100 # 0) \/ (year % 400 = 0)

\* the count without the validation of the month
getDaysCountInAMonth_Unchecked(year, month) ==
    IF month \in month31 THEN 31
    ELSE IF month \in month30 THEN 30
    ELSE IF isLeapYear(year) THEN 29 ELSE 28

getDaysCountInAMonth_NoCentury(year, month) ==
    IF month < 1 \/ month > 12 THEN 0
    ELSE IF month \in month31 THEN 31
    ELSE IF month \in month30 THEN 30
    ELSE IF year % 4 = 0 THEN 29 ELSE 28

\* lc.js 148-168
getDaysCountInAMonth(year, month) ==
    IF month < 1 \/ month > 12 THEN 0
    ELSE IF month \in month31 THEN 31
    ELSE IF month \in month30 THEN 30
    ELSE IF isLeapYear(year) THEN 29 ELSE 28

(* new Date(year, monthIndex, 1).getDay(), as ECMAScript defines it: the
   Date constructor maps a year 0..99 to 1900 + year; the day is counted from
   1 January 1970, a Thursday (WeekDay(t) = (Day(t) + 4) mod 7).  Both the
   constructor and getDay() use local time, so the weekday is that of the
   civil date. *)
DateCtorYear(y) == IF 0 <= y /\ y <= 99 THEN 1900 + y ELSE y

DayFromYear(y) ==
    365 * (y - 1970) + ((y - 1969) \div 4) - ((y - 1901) \div 100)
        + ((y - 1601) \div 400)

DaysInYearMonth(y, m) ==
    IF m \in month31 THEN 31
    ELSE IF m \in month30 THEN 30
    ELSE IF isLeapYear(y) THEN 29 ELSE 28

RECURSIVE DaysBeforeMonth(_, _)
DaysBeforeMonth(y, m) ==
    IF m <= 1 THEN 0
    ELSE DaysBeforeMonth(y, m - 1) + DaysInYearMonth(y, m - 1)

\* getDay() of new Date(year, monthIndex, 1): 0 = Sunday .. 6 = Saturday
DateGetDay(year, monthIndex) ==
    LET y == DateCtorYear(year)
    IN  (DayFromYear(y) + DaysBeforeMonth(y, monthIndex + 1) + 4) % 7

getDayOfMonthStart_ZeroBased(year, month) ==
    IF year < 1 \/ month < 1 \/ month > 12 THEN JsFalse
    ELSE DateGetDay(year, month - 1)

\* lc.js 129-138
getDayOfMonthStart(year, month) ==
    IF year < 1 \/ month < 1 \/ month > 12 THEN JsFalse
    ELSE DateGetDay(year, month - 1) + 1

\* lc.js 183-189 (the arguments are integers here: parseInt leaves them)
\* the comparison without the year
dateOfToday_AnyYear(date, month, year) ==
    month = currentMonth /\ date = currentDate

dateOfToday(date, month, year) ==
    year = currentYear /\ month = currentMonth /\ date = currentDate

---------------------------------------------------------------------------
(* setOrdinalIndicators: lc.js 197-231 *)

\* A value passed as `number` is a Number, a String or NaN:
\*   [kind |-> "number", neg, mant, exp]   (-1)^neg * mant * 10^exp, where
\*                                         mant ends in no 0 unless exp = 0
\*   [kind |-> "string", chars]            its characters
\*   [kind |-> "NaN"]
Digit == << "0", "1", "2", "3", "4", "5", "6", "7", "8", "9" >>
DigitChars == {Digit[i] : i \in DOMAIN Digit}
DigitValue(c) == (CHOOSE i \in DOMAIN Digit : Digit[i] = c) - 1

RECURSIVE DigitsOf(_)
DigitsOf(n) ==
    IF n < 10 THEN << Digit[n + 1] >>
    ELSE Append(DigitsOf(n \div 10), Digit[(n % 10) + 1])

Zeros(k) == [i \in 1..k |-> "0"]

\* Number::toString(x) of ECMAScript for a finite Number: with k digits and
\* the decimal point after digit n, plain digits while n <= 21, a fraction
\* while -6 < n, and else the exponent notation (1e+21)
NumberToString(x) ==
    IF x.mant = 0 THEN << "0" >>
    ELSE LET s == DigitsOf(x.mant)
             k == Len(s)
             n == k + x.exp
             e == n - 1
             sign == IF x.neg THEN << "-" >> ELSE << >>
             body ==
                IF k <= n /\ n <= 21 THEN s \o Zeros(n - k)
                ELSE IF 0 < n /\ n <= 21
                THEN SubSeq(s, 1, n) \o << "." >> \o SubSeq(s, n + 1, k)
                ELSE IF -6 < n /\ n <= 0
                THEN << "0", "." >> \o Zeros(0 - n) \o s
                ELSE (IF k = 1 THEN s
                      ELSE << s[1], "." >> \o SubSeq(s, 2, k))
                     \o << "e", IF e < 0 THEN "-" ELSE "+" >>
                     \o DigitsOf(IF e < 0 THEN 0 - e ELSE e)
         IN  sign \o body

\* StringOf(value): what RegExp.prototype.test and toString() make of it
StringOf(value) ==
    CASE value.kind = "string" -> value.chars
      [] value.kind = "NaN" -> << "N", "a", "N" >>
      [] OTHER -> NumberToString(value)

\* /^\d+$/.test(number): lc.js 199
isDigitsOnly(chars) ==
    /\ Len(chars) > 0
    /\ \A i \in DOMAIN chars : chars[i] \in DigitChars

\* str.slice(-count)
sliceLast(chars, count) ==
    IF Len(chars) <= count THEN chars
    ELSE SubSeq(chars, Len(chars) - count + 1, Len(chars))

\* parseInt of a string of digits
RECURSIVE parseInt(_)
parseInt(chars) ==
    IF Len(chars) = 0 THEN 0
    ELSE 10 * parseInt(SubSeq(chars, 1, Len(chars) - 1))
            + DigitValue(chars[Len(chars)])

\* lc.js 211-228
ordinalSuffix(lastTwoDigits, lastDigit) ==
    IF lastTwoDigits >= 11 /\ lastTwoDigits <= 13 THEN << "t", "h" >>
    ELSE CASE lastDigit = 1 -> << "s", "t" >>
           [] lastDigit = 2 -> << "n", "d" >>
           [] lastDigit = 3 -> << "r", "d" >>
           [] OTHER -> << "t", "h" >>

\* lc.js 199
isValidNumber(number) == isDigitsOnly(StringOf(number))

\* lc.js 197-231: the string returned, as its characters, or the message
setOrdinalIndicators(number) ==
    IF ~isValidNumber(number)
    THEN [kind |-> "message", text |-> "Error: Input is not a valid number."]
    ELSE LET str == StringOf(number)
             lastTwoDigits == parseInt(sliceLast(str, 2))
             lastDigit == parseInt(sliceLast(str, 1))
         IN  [kind |-> "ordinal",
              chars |-> str \o ordinalSuffix(lastTwoDigits, lastDigit)]

---------------------------------------------------------------------------
(* The month table body: lc.js 933-1029 *)

emptyCell == [date |-> 0, calendarDate |-> FALSE, DOT |-> FALSE]

\* a date cell: lc.js 953-964, 989-1000, 1012-1023
dateCell(dateNumber, thisMonth, yearOnBrowse, useAs) ==
    [date |-> dateNumber,
     calendarDate |-> (useAs = "input"),
     DOT |-> dateOfToday(dateNumber, thisMonth, yearOnBrowse)]

initRow_OneEmptyLess(firstDayStart, thisMonth, yearOnBrowse, useAs) ==
    LET emptyCells == firstDayStart - 2
        activeDays == 7 - (firstDayStart - 1)
    IN  [i \in 1..emptyCells |-> emptyCell] \o
        [i \in 1..activeDays |->
            dateCell(i, thisMonth, yearOnBrowse, useAs)]

\* lc.js 940-968
initRow(firstDayStart, thisMonth, yearOnBrowse, useAs) ==
    LET emptyCells == firstDayStart - 1
        activeDays == 7 - emptyCells
    IN  [i \in 1..emptyCells |-> emptyCell] \o
        [i \in 1..activeDays |->
            dateCell(i, thisMonth, yearOnBrowse, useAs)]

weekRows_SkipFirst(activeDays, rowsBy7Days, thisMonth, yearOnBrowse, useAs) ==
    LET starts == {i \in 0..(rowsBy7Days - 1) : i % 7 = 0}
    IN  [r \in 1..Cardinality(starts) |->
            [j \in 1..7 |->
                dateCell(activeDays + 7 * (r - 1) + j + 1, thisMonth,
                         yearOnBrowse, useAs)]]

\* lc.js 984-1005: one row for every i < rowsBy7Days with i % 7 = 0, each of
\* seven cells numbered ++activeDays
weekRows(activeDays, rowsBy7Days, thisMonth, yearOnBrowse, useAs) ==
    LET starts == {i \in 0..(rowsBy7Days - 1) : i % 7 = 0}
    IN  [r \in 1..Cardinality(starts) |->
            [j \in 1..7 |->
                dateCell(activeDays + 7 * (r - 1) + j, thisMonth,
                         yearOnBrowse, useAs)]]

\* the remainder row built without data-cdate and calendarDate
remainderRows_NotSelectable(activeDays, remainderDays, thisMonth, yearOnBrowse, useAs) ==
    IF remainderDays > 0
    THEN << [j \in 1..remainderDays |->
                dateCell(activeDays + j, thisMonth, yearOnBrowse,
                         "showcase")] >>
    ELSE << >>

\* the remainder row filled up to seven cells with empty cells
remainderRows_Padded(activeDays, remainderDays, thisMonth, yearOnBrowse, useAs) ==
    IF remainderDays > 0
    THEN << [j \in 1..remainderDays |->
                dateCell(activeDays + j, thisMonth, yearOnBrowse, useAs)]
            \o [j \in 1..(7 - remainderDays) |-> emptyCell] >>
    ELSE << >>

\* lc.js 1008-1028: the rows (none or one) holding the remaining days
remainderRows(activeDays, remainderDays, thisMonth, yearOnBrowse, useAs) ==
    IF remainderDays > 0
    THEN << [j \in 1..remainderDays |->
                dateCell(activeDays + j, thisMonth, yearOnBrowse, useAs)] >>
    ELSE << >>

\* lc.js 933-1029: the rows of the <tbody> of one month
monthTableBody(yearOnBrowse, thisMonth, useAs) ==
    LET daysCount == getDaysCountInAMonth(yearOnBrowse, thisMonth)
        firstDayStart == getDayOfMonthStart(yearOnBrowse, thisMonth)
    IN  IF firstDayStart = JsFalse THEN << >>
        ELSE
        LET activeDays == 7 - (firstDayStart - 1)
            restOfDaysAfterInitRow == daysCount - activeDays
            remainderDays == restOfDaysAfterInitRow % 7
            rowsBy7Days == restOfDaysAfterInitRow - remainderDays
        IN  << initRow(firstDayStart, thisMonth, yearOnBrowse, useAs) >>
            \o weekRows(activeDays, rowsBy7Days, thisMonth, yearOnBrowse,
                        useAs)
            \o remainderRows(activeDays + rowsBy7Days, remainderDays,
                             thisMonth, yearOnBrowse, useAs)

---------------------------------------------------------------------------
(* Reading a table *)

RECURSIVE Flatten(_)
Flatten(rows) ==
    IF rows = << >> THEN << >> ELSE Head(rows) \o Flatten(Tail(rows))

\* the day numbers of the date cells of a row, in order
IsDateCell(cell) == cell.date # 0
DayNumbers(cells) ==
    LET dates == SelectSeq(cells, IsDateCell)
    IN  [i \in 1..Len(dates) |-> dates[i].date]

---------------------------------------------------------------------------
(* The page before any calendar is constructed: lc.js 113-120 *)

\* the declaration with dateSelected starting true
InitSelection_DateSet ==
    /\ yearSelected = FALSE
    /\ monthSelected = FALSE
    /\ dateSelected = TRUE
    /\ selectedYearValue = null
    /\ selectedMonthValue = null
    /\ selectedDateValue = null
    /\ selectionValue = null

InitSelection ==
    /\ yearSelected = FALSE
    /\ monthSelected = FALSE
    /\ dateSelected = FALSE
    /\ selectedYearValue = null
    /\ selectedMonthValue = null
    /\ selectedDateValue = null
    /\ selectionValue = null

NoSinks == [year |-> null, month |-> null, date |-> null, selection |-> << >>]
NothingChosen ==
    [year |-> null, month |-> null, date |-> null,
     \* the calendars they were chosen in (0: none)
     yearIn |-> 0, monthIn |-> 0, dateIn |-> 0]
NoOutcome ==
    [ev |-> "none", result |-> "none", error |-> "", value |-> << >>,
     had |-> NothingChosen, target |-> 0]
NoInstance == [made |-> FALSE]

InitPage ==
    /\ doOnSelection = "false"
    /\ cal = << >>
    /\ sinks = NoSinks
    /\ outcome = NoOutcome
    /\ chosen = NothingChosen
    /\ instance = NoInstance

---------------------------------------------------------------------------
(* The lcsCalendar constructor: lc.js 681-751 *)

\* the names with typeof window[name] === 'function' (lc.js 743): the
\* library's own defaultConclusionCallback and one function of the page
WindowFunctions == {"defaultConclusionCallback", "handleDateSelection"}

\* a default parameter (lc.js 681-690): the default when the field is omitted
Arg(config, field, default) ==
    IF field \in config.omit THEN default ELSE config[field]

\* setAttribute("data-cflexible", this.setFlexible): lc.js 765-766
BoolAttr(b) == IF b THEN "true" ELSE "false"

\* the string taken by its truthiness: every non-empty string is true
toBoolean_Truthy(str) == str # ""

\* lc.js 273-275
toBoolean(str) == str \in {"true", "True", "TRUE", "1"}

\* a year start above the year on browse kept as given
clampYearStart_Kept(yearStartFrom, yearOnBrowse) == yearStartFrom

\* lc.js 719-721
clampYearStart(yearStartFrom, yearOnBrowse) ==
    IF yearStartFrom > yearOnBrowse THEN yearOnBrowse ELSE yearStartFrom

\* a year end lowered to the year on browse when above it, and kept when below
clampYearEnd_Lowered(yearEndAt, yearOnBrowse) ==
    IF yearEndAt > yearOnBrowse THEN yearOnBrowse ELSE yearEndAt

\* lc.js 726-728
clampYearEnd(yearEndAt, yearOnBrowse) ==
    IF yearEndAt < yearOnBrowse THEN yearOnBrowse ELSE yearEndAt

\* lc.js 692-748: the validated fields of the instance, or the Error thrown
lcsCalendarCtor(config) ==
    LET year == Arg(config, "year", currentYear)
        month == Arg(config, "month", currentMonth)
        yearStart == Arg(config, "yearStart", oldestYear)
        yearEnd == Arg(config, "yearEnd", nextYear)
        purpose == Arg(config, "purpose", "showcase")
        flexible == Arg(config, "flexible", FALSE)
        expanded == Arg(config, "expanded", FALSE)
        conclusionCallback ==
            Arg(config, "conclusionCallback", "defaultConclusionCallback")
        yearOnBrowse == year
        monthOnBrowse == month
        startGiven == IF yearStart = 0 THEN 2020 ELSE yearStart
        endGiven == IF yearEnd = 0 THEN nextYear ELSE yearEnd
        yearStartFrom == clampYearStart(startGiven, yearOnBrowse)
        yearEndAt == clampYearEnd(endGiven, yearOnBrowse)
    IN  IF year < oldestYear \/ year > newestYear
        THEN [threw |-> TRUE, error |->
                "Year must be between 100 years ago and 10 years from now"]
        ELSE IF month < 1 \/ month > 12
        THEN [threw |-> TRUE, error |->
                "Month must be provided in human-readable format (e.g., 1 for Jan to 12 for Dec)"]
        ELSE IF startGiven < oldestYear
        THEN [threw |-> TRUE, error |->
                "Year start must be between 100 years ago and 10 years from now"]
        ELSE IF endGiven > newestYear
        THEN [threw |-> TRUE, error |->
                "Year end must be between 100 years ago and 10 years from now"]
        ELSE IF purpose \notin {"showcase", "input"}
        THEN [threw |-> TRUE, error |->
                "Purpose must be either 'showcase' or 'input'"]
        ELSE IF conclusionCallback # "" /\ conclusionCallback \notin WindowFunctions
        THEN [threw |-> TRUE, error |->
                "Specified conclusionCallback function is not defined"]
        ELSE [threw |-> FALSE, error |-> "",
              yearOnBrowse |-> yearOnBrowse,
              monthOnBrowse |-> monthOnBrowse,
              yearStartFrom |-> yearStartFrom,
              yearEndAt |-> yearEndAt,
              useAs |-> purpose,
              setFlexible |-> flexible,
              setExpanded |-> expanded,
              conclusionCallback |-> conclusionCallback]

\* lc.js 742-748: doOnSelection after a constructor that did not throw
doOnSelectionAfter(inst, before) ==
    IF inst.conclusionCallback # "" THEN inst.conclusionCallback ELSE before

---------------------------------------------------------------------------
(* #setCalendar: lc.js 757-1088 *)

\* lc.js 879-1040: the .calendarBody element: its data-yob and data-mob, the
\* months of its tables and the purpose their cells were built for (the rows
\* of a table are monthTableBody of these)
calendarBody(inst) ==
    [yob |-> inst.yearOnBrowse,
     mob |-> inst.monthOnBrowse,
     months |-> IF inst.setExpanded THEN [i \in 1..12 |-> i]
                ELSE << inst.monthOnBrowse >>,
     useAs |-> inst.useAs]

\* the rows of table k of a body
bodyTable(body, k) == monthTableBody(body.yob, body.months[k], body.useAs)

\* lc.js 801-816: the year list loop. Each round takes this.yearStartFrom++
\* as the number of its button, so the loop leaves this.yearStartFrom raised
\* by the number of its rounds
yearListLoop(inst) ==
    LET yearListCount == (inst.yearEndAt + 1) - inst.yearStartFrom
        rounds == IF yearListCount > 0 THEN yearListCount ELSE 0
    IN  [buttons |-> [i \in 1..rounds |-> inst.yearStartFrom + (i - 1)],
         yearStartFrom |-> inst.yearStartFrom + rounds]

\* the fields of the instance when #setCalendar returns
instanceAfterSetCalendar(inst) ==
    [inst EXCEPT !.yearStartFrom = yearListLoop(inst).yearStartFrom]

\* lc.js 762-872, 1043-1083: a new .lcsCalendar element
calendarMain(inst) ==
    [inDoc |-> TRUE,
     activeCalendar |-> FALSE,
     cflexible |-> BoolAttr(inst.setFlexible),
     cexpanded |-> BoolAttr(inst.setExpanded),
     cpurpose |-> inst.useAs,
     cys |-> inst.yearStartFrom,
     cye |-> inst.yearEndAt,
     \* the year buttons (data-loy), those with data-yob, whether they
     \* carry data-cyear
     loy |-> {yearListLoop(inst).buttons[i] :
                    i \in DOMAIN yearListLoop(inst).buttons},
     loyYob |-> {yearListLoop(inst).buttons[i] :
                    i \in {j \in DOMAIN yearListLoop(inst).buttons :
                            yearListLoop(inst).buttons[j] = inst.yearOnBrowse}},
     cyear |-> (inst.useAs = "input"),
     \* the month buttons: their data-yob, those with data-mob, whether they
     \* carry data-cmonth
     lomYob |-> inst.yearOnBrowse,
     lomMob |-> {m \in 1..12 : m = inst.monthOnBrowse},
     cmonth |-> (inst.useAs = "input"),
     toggle |-> inst.setFlexible,
     CSDB |-> (inst.useAs = "input"),
     body |-> calendarBody(inst)]

\* an element after remove() (lc.js 534): it is no longer in the document
removedCalendar ==
    [inDoc |-> FALSE, activeCalendar |-> FALSE, cflexible |-> "false",
     cexpanded |-> "false", cpurpose |-> "showcase", cys |-> 0, cye |-> 0,
     loy |-> {}, loyYob |-> {}, cyear |-> FALSE, lomYob |-> 0, lomMob |-> {},
     cmonth |-> FALSE, toggle |-> FALSE, CSDB |-> FALSE,
     body |-> [yob |-> 0, mob |-> 0, months |-> << >>, useAs |-> "showcase"]]

InDoc(cals) == {i \in DOMAIN cals : cals[i].inDoc}

\* document.querySelector(".lcsCalendar.activeCalendar"): the first one
ActiveCalendars(cals) == {i \in InDoc(cals) : cals[i].activeCalendar}
FirstOf(S) == CHOOSE i \in S : \A j \in S : i <= j

\* lc.js 1074-1084: the new body replaces the active calendar's body; with
\* no active calendar the page inserts the new element (calendarHTML())
setCalendar(inst, cals) ==
    IF ActiveCalendars(cals) # {}
    THEN [cals EXCEPT ![FirstOf(ActiveCalendars(cals))].body =
                            calendarBody(inst)]
    ELSE Append(cals, calendarMain(inst))

---------------------------------------------------------------------------
(* The page constructs a calendar *)

\* a config of the page: the year range and the flags given, year and month
\* left to their defaults
HostConfig(purpose, flexible, expanded, callback) ==
    [omit |-> {"year", "month"}
                \cup (IF callback = "" THEN {"conclusionCallback"} ELSE {}),
     year |-> 0, month |-> 0,
     yearStart |-> currentYear,
     yearEnd |-> currentYear + YearSpan,
     purpose |-> purpose, flexible |-> flexible, expanded |-> expanded,
     conclusionCallback |-> callback]

\* the pages: what each constructs, in order, and what it offers as the
\* elements that receive the selected values
Pages ==
    { [sinkKind |-> k,
       configs |-> << HostConfig("input", TRUE, FALSE, "") >>] :
            k \in {"absent", "input", "other"} }
    \cup
    { [sinkKind |-> "input", configs |-> cs] : cs \in {
        << HostConfig("input", TRUE, TRUE, "handleDateSelection") >>,
        << HostConfig("showcase", TRUE, FALSE, "") >>,
        << HostConfig("input", FALSE, FALSE, ""),
           HostConfig("input", FALSE, FALSE, "") >>,
        << HostConfig("showcase", FALSE, FALSE, ""),
           HostConfig("input", FALSE, FALSE, "") >> } }

Event(ev, result, error) ==
    [ev |-> ev, result |-> result, error |-> error, value |-> << >>,
     had |-> NothingChosen, target |-> 0]

\* the same for a click whose event.target is inside calendar c
EventIn(c, ev, result, error) ==
    [Event(ev, result, error) EXCEPT !.target = c]

\* new lcsCalendar(config), and the page inserting calendarHTML()
Construct ==
    /\ toConstruct # << >>
    /\ toConstruct' = Tail(toConstruct)
    /\ LET inst == lcsCalendarCtor(Head(toConstruct))
        IN  /\ sinks' = NoSinks
            /\ IF inst.threw
               THEN /\ outcome' = Event("construct", "threw", inst.error)
                    /\ instance' = [made |-> FALSE,
                                    config |-> Head(toConstruct)]
                    /\ UNCHANGED << doOnSelection, cal >>
               ELSE /\ doOnSelection' = doOnSelectionAfter(inst, doOnSelection)
                    /\ cal' = setCalendar(inst, cal)
                    /\ outcome' = Event("construct", "ok", "")
                    /\ instance' = [made |-> TRUE,
                                    config |-> Head(toConstruct),
                                    validated |-> inst,
                                    returned |->
                                        instanceAfterSetCalendar(inst)]
            /\ UNCHANGED << today, mathVars, selVars, sinkKind, chosen >>

---------------------------------------------------------------------------
(* defaultConclusionCallback: lc.js 457-539 *)

needsYear(flag) == flag # TRUE          \* lc.js 468
needsMonth(flag) == flag # TRUE         \* lc.js 487
\* the date check left out
needsDate_Never(flag) == FALSE
needsDate(flag) == flag # TRUE          \* lc.js 506

\* lc.js 515: `${selectedDateValue}-${selectedMonthValue}-${selectedYearValue}`
\* the three numbers in the order the template writes them
\* the template written month first
selectionTemplate_MonthFirst(date, month, year) == << month, date, year >>
selectionTemplate(date, month, year) == << date, month, year >>

\* the reset with dateSelected left as it is
resetSelection_KeepsDate ==
    [yearSelected |-> FALSE, monthSelected |-> FALSE,
     dateSelected |-> dateSelected,
     selectedYearValue |-> null, selectedMonthValue |-> null,
     selectedDateValue |-> null, selectionValue |-> null]

\* lc.js 525-531
resetSelection ==
    [yearSelected |-> FALSE, monthSelected |-> FALSE, dateSelected |-> FALSE,
     selectedYearValue |-> null, selectedMonthValue |-> null,
     selectedDateValue |-> null, selectionValue |-> null]

\* the callback returning at the first unselected field, without reading the
\* year or the month on browse
conclusionStage_Strict(cals) ==
    IF ActiveCalendars(cals) = {} THEN "noCalendar"
    ELSE IF needsYear(yearSelected) THEN "noYear"
    ELSE IF needsMonth(monthSelected) THEN "noMonth"
    ELSE IF needsDate(dateSelected) THEN "noDate"
    ELSE IF sinkKind = "other" THEN "throwSelection"
    ELSE "done"

\* how far the callback gets: where it returns or throws
conclusionStage(cals) ==
    LET active == ActiveCalendars(cals)
        u == cals[FirstOf(active)]
    IN  IF active = {} THEN "noCalendar"
        ELSE IF needsYear(yearSelected) /\ u.loyYob = {} THEN "noYear"
        ELSE IF needsYear(yearSelected) /\ sinkKind = "other" THEN "throwYear"
        ELSE IF needsMonth(monthSelected) /\ u.lomMob = {} THEN "noMonth"
        ELSE IF needsMonth(monthSelected) /\ sinkKind = "other"
        THEN "throwMonth"
        ELSE IF needsDate(dateSelected) THEN "noDate"
        ELSE IF sinkKind = "other" THEN "throwSelection"
        ELSE "done"

conclusionError(stage) ==
    CASE stage = "noCalendar" ->
            "Unexpected error! No interaction with any lcsCalendar instance found."
      [] stage = "noYear" ->
            "Unexpected error! Year value could not be retrieved. Please select a year."
      [] stage = "throwYear" ->
            "The element provided to receive the year value must be a valid input element."
      [] stage = "noMonth" ->
            "Unexpected error! Month value could not be retrieved. Please select a month."
      [] stage = "throwMonth" ->
            "The element provided to receive the month value must be a valid input element."
      [] stage = "noDate" -> "Please select date"
      [] stage = "throwSelection" ->
            "The element provided to receive the selection value must be a valid input element."
      [] OTHER -> ""

\* the whole callback, run on the document cals by the event ev
defaultConclusionCallback(cals, ev) ==
    LET stage == conclusionStage(cals)
        active == ActiveCalendars(cals)
        ui == FirstOf(active)
        u == cals[ui]
        \* lc.js 468-484
        yearRead == stage \notin {"noCalendar", "noYear"}
                        /\ needsYear(yearSelected)
        year == IF yearRead THEN FirstOf(u.loyYob) ELSE selectedYearValue
        yearWritten == yearRead /\ stage # "throwYear" /\ sinkKind = "input"
        \* lc.js 487-503
        monthRead == stage \notin {"noCalendar", "noYear", "throwYear",
                                   "noMonth"}
                        /\ needsMonth(monthSelected)
        month == IF monthRead THEN FirstOf(u.lomMob) ELSE selectedMonthValue
        monthWritten == monthRead /\ stage # "throwMonth" /\ sinkKind = "input"
        \* lc.js 515
        value == selectionTemplate(selectedDateValue, month, year)
        result == CASE stage = "done" -> "delivered"
                    [] stage \in {"throwYear", "throwMonth", "throwSelection"}
                            -> "threw"
                    [] OTHER -> "returned"
    IN  /\ outcome' = [ev |-> ev, result |-> result,
                       error |-> conclusionError(stage),
                       value |-> IF stage = "done" THEN value ELSE << >>,
                       had |-> chosen,
                       target |-> IF ev = "done" THEN ui ELSE 0]
        /\ sinks' = [NoSinks EXCEPT
                !.year = IF yearWritten THEN year ELSE @,
                !.month = IF monthWritten THEN month ELSE @,
                !.selection = IF stage = "done" /\ sinkKind = "input"
                              THEN value ELSE @]
        /\ IF stage = "done"
           THEN /\ yearSelected' = resetSelection.yearSelected
                /\ monthSelected' = resetSelection.monthSelected
                /\ dateSelected' = resetSelection.dateSelected
                /\ selectedYearValue' = resetSelection.selectedYearValue
                /\ selectedMonthValue' = resetSelection.selectedMonthValue
                /\ selectedDateValue' = resetSelection.selectedDateValue
                /\ selectionValue' = resetSelection.selectionValue
                /\ cal' = [cals EXCEPT ![ui] = removedCalendar]
                /\ chosen' = NothingChosen
           ELSE /\ selectedYearValue' = year
                /\ selectedMonthValue' = month
                /\ selectionValue' = IF stage = "throwSelection"
                                     THEN value ELSE selectionValue
                /\ cal' = cals
                /\ UNCHANGED << yearSelected, monthSelected, dateSelected,
                                selectedDateValue, chosen >>

---------------------------------------------------------------------------
(* The document click listener: lc.js 1110-1336 *)

\* the mark added to the clicked calendar without removing it from the others
activate_KeepOthers(cals, c) ==
    [cals EXCEPT ![c].activeCalendar = TRUE]

\* lc.js 1113-1134: the clicked calendar becomes the only active one
activate(cals, c) ==
    [i \in DOMAIN cals |-> [cals[i] EXCEPT !.activeCalendar = (i = c)]]

\* lc.js 1122-1131: a click outside every calendar leaves none active
deactivateAll(cals) ==
    [i \in DOMAIN cals |-> [cals[i] EXCEPT !.activeCalendar = FALSE]]

\* the config the listener passes to new lcsCalendar: lc.js 1204-1212,
\* 1234-1242, 1260-1268
rebuildConfig(el, year, month, expanded) ==
    [omit |-> {"conclusionCallback"},
     year |-> year, month |-> month,
     yearStart |-> el.cys, yearEnd |-> el.cye,
     purpose |-> el.cpurpose,
     flexible |-> toBoolean(el.cflexible),
     expanded |-> expanded,
     conclusionCallback |-> ""]

\* the month on browse reset to January whatever the year
mobNumberFor_January(selectedYear) == 1

\* lc.js 1184
mobNumberFor(selectedYear) ==
    IF selectedYear = currentYear THEN currentMonth ELSE 1

\* the part of the listener shared by the year, month and toggle buttons: the
\* header attributes are set, new lcsCalendar(config) runs, and then, on a
\* button carrying data-cyear or data-cmonth, the selection is recorded
Rebuild(c, cals, config, ev, selects, value) ==
    LET inst == lcsCalendarCtor(config)
        throws == inst.threw
        sinkThrows == ~throws /\ selects /\ sinkKind = "other"
        recorded == ~throws /\ selects /\ sinkKind # "other"
    IN  /\ doOnSelection' =
              IF throws THEN doOnSelection
              ELSE doOnSelectionAfter(inst, doOnSelection)
        /\ cal' = IF throws THEN cals ELSE setCalendar(inst, cals)
        /\ outcome' =
              IF throws THEN EventIn(c, ev, "threw", inst.error)
              ELSE IF sinkThrows
              THEN EventIn(c, ev, "threw",
                    "The element provided to receive the value must be a valid input element.")
              ELSE EventIn(c, ev,
                           IF recorded THEN "selected" ELSE "browsed", "")
        /\ IF recorded /\ ev = "year"
           THEN /\ yearSelected' = TRUE
                /\ selectedYearValue' = value
                /\ chosen' = [chosen EXCEPT !.year = value, !.yearIn = c]
                /\ sinks' = [NoSinks EXCEPT
                        !.year = IF sinkKind = "input" THEN value ELSE @]
                /\ UNCHANGED << monthSelected, selectedMonthValue >>
           ELSE IF recorded /\ ev = "month"
           THEN /\ monthSelected' = TRUE
                /\ selectedMonthValue' = value
                /\ chosen' = [chosen EXCEPT !.month = value, !.monthIn = c]
                /\ sinks' = [NoSinks EXCEPT
                        !.month = IF sinkKind = "input" THEN value ELSE @]
                /\ UNCHANGED << yearSelected, selectedYearValue >>
           ELSE /\ sinks' = NoSinks
                /\ UNCHANGED << yearSelected, selectedYearValue,
                                monthSelected, selectedMonthValue, chosen >>
        /\ UNCHANGED << dateSelected, selectedDateValue, selectionValue >>

\* lc.js 1169-1214 and 1274-1287: a year button
ClickYear(c) ==
    \E selectedYear \in cal[c].loy :
        LET cals == activate(cal, c)
            mobNumber == mobNumberFor(selectedYear)
            header == [cals EXCEPT ![c].loyYob = {selectedYear},
                                   ![c].lomYob = selectedYear,
                                   ![c].lomMob = {mobNumber}]
        IN  Rebuild(c, header,
                    rebuildConfig(cals[c], selectedYear, mobNumber,
                                  toBoolean(cals[c].cexpanded)),
                    "year", cals[c].cyear, selectedYear)

\* lc.js 1216-1243 and 1288-1301: a month button
ClickMonth(c) ==
    \E selectedMonth \in 1..MaxClickMonth :
        LET cals == activate(cal, c)
            YOB == cals[c].lomYob
            header == [cals EXCEPT ![c].lomMob = {selectedMonth}]
        IN  Rebuild(c, header,
                    rebuildConfig(cals[c], YOB, selectedMonth,
                                  toBoolean(cals[c].cexpanded)),
                    "month", cals[c].cmonth, selectedMonth)

\* lc.js 1245-1272: the expand / shrink toggle
ClickToggle(c) ==
    /\ cal[c].toggle
    /\ LET cals == activate(cal, c)
           calendarIsExpanded == ~toBoolean(cals[c].cexpanded)
           header == [cals EXCEPT
                        ![c].cexpanded = BoolAttr(calendarIsExpanded)]
       IN  Rebuild(c, header,
                   rebuildConfig(cals[c], cals[c].body.yob, cals[c].body.mob,
                                 calendarIsExpanded),
                   "toggle", FALSE, null)

\* the date cells of a table the user clicks: the first and last DayEdge
\* of the cells .calendarDate[data-cdate]
ClickableCells(cells) ==
    LET count == Len(DayNumbers(cells))
    IN  {i \in 1..Len(cells) :
            /\ cells[i].calendarDate
            /\ cells[i].date # 0
            /\ (cells[i].date <= DayEdge \/ cells[i].date > count - DayEdge)}

\* the date branch entered only once a year and a month are selected
dateTakesEffect_OnceMonthSet(dateSelection, activeCalendar) ==
    dateSelection /\ activeCalendar /\ yearSelected /\ monthSelected

\* lc.js 1303: if (dateSelection && activeCalendar)
dateTakesEffect(dateSelection, activeCalendar) ==
    dateSelection /\ activeCalendar

\* lc.js 1302-1324: a cell .calendarDate[data-cdate]
ClickDate(c) ==
    \E k \in DOMAIN cal[c].body.months :
        LET cells == Flatten(bodyTable(cal[c].body, k))
        IN  \E i \in ClickableCells(cells) :
            LET dateValue == cells[i].date
            IN  /\ cal' = activate(cal, c)
                /\ IF ~dateTakesEffect(TRUE, activate(cal, c)[c].activeCalendar)
                   THEN /\ outcome' = EventIn(c, "date", "none", "")
                        /\ sinks' = NoSinks
                        /\ UNCHANGED << dateSelected, selectedDateValue,
                                        chosen >>
                   ELSE IF sinkKind = "other"
                   THEN /\ outcome' = EventIn(c, "date", "threw",
                                "The element provided to receive the date value must be a valid input element.")
                        /\ sinks' = NoSinks
                        /\ UNCHANGED << dateSelected, selectedDateValue,
                                        chosen >>
                   ELSE /\ outcome' = EventIn(c, "date", "selected", "")
                        /\ dateSelected' = TRUE
                        /\ selectedDateValue' = dateValue
                        /\ chosen' = [chosen EXCEPT !.date = dateValue,
                                                       !.dateIn = c]
                        /\ sinks' = [NoSinks EXCEPT !.date =
                                IF sinkKind = "input" THEN dateValue ELSE @]
                /\ UNCHANGED << yearSelected, monthSelected, selectedYearValue,
                                selectedMonthValue, selectionValue,
                                doOnSelection >>

\* lc.js 1326-1334: the Done button
ClickDone(c) ==
    /\ cal[c].CSDB
    /\ IF doOnSelection \notin {"false", "defaultConclusionCallback"}
       THEN \* window[doOnSelection](): a function of the page
            /\ cal' = activate(cal, c)
            /\ outcome' = [EventIn(c, "done", "custom", "") EXCEPT
                                !.had = chosen]
            /\ sinks' = NoSinks
            /\ UNCHANGED << selVars, chosen >>
       ELSE defaultConclusionCallback(activate(cal, c), "done")
    /\ UNCHANGED doOnSelection

\* a click elsewhere in a calendar (an empty cell, the header, the year
\* list's scroll and expand icons at lc.js 1139-1167): it only activates
ClickInside(c) ==
    /\ cal' = activate(cal, c)
    /\ outcome' = EventIn(c, "inside", "none", "")
    /\ sinks' = NoSinks
    /\ UNCHANGED << selVars, doOnSelection, chosen >>

\* lc.js 1122-1134
ClickOutside ==
    /\ cal' = deactivateAll(cal)
    /\ outcome' = Event("outside", "none", "")
    /\ sinks' = NoSinks
    /\ UNCHANGED << selVars, doOnSelection, chosen >>

\* the page calls the global function defaultConclusionCallback itself
CallDefaultConclusionCallback ==
    /\ defaultConclusionCallback(cal, "call")
    /\ UNCHANGED doOnSelection

\* what no click changes
ClickFrame == UNCHANGED << today, mathVars, sinkKind, toConstruct, instance >>

YearButton == \E c \in InDoc(cal) : ClickYear(c) /\ ClickFrame
MonthButton == \E c \in InDoc(cal) : ClickMonth(c) /\ ClickFrame
FlexibilityToggle == \E c \in InDoc(cal) : ClickToggle(c) /\ ClickFrame
DateCell == \E c \in InDoc(cal) : ClickDate(c) /\ ClickFrame
DoneButton == \E c \in InDoc(cal) : ClickDone(c) /\ ClickFrame
Elsewhere == \E c \in InDoc(cal) : ClickInside(c) /\ ClickFrame
Outside == ClickOutside /\ ClickFrame
PageCallsConclusion == CallDefaultConclusionCallback /\ ClickFrame

\* the date the pages are loaded on
PageToday == [year |-> 2024, month |-> 2, date |-> 29]

Init ==
    /\ today = PageToday
    /\ mathArg = [year |-> 0, month |-> 0]
    /\ mathRes = [op |-> "none"]
    /\ InitSelection
    /\ InitPage
    /\ \E page \in Pages :
          /\ toConstruct = page.configs
          /\ sinkKind = page.sinkKind

Next ==
    \/ Construct
    \/ YearButton
    \/ MonthButton
    \/ FlexibilityToggle
    \/ DateCell
    \/ DoneButton
    \/ Elsewhere
    \/ Outside
    \/ PageCallsConclusion

Spec == Init /\ [][Next]_vars

---------------------------------------------------------------------------
(* SpecMath: the math functions and the month table, applied to inputs *)

\* a Number that is an integer, a String
JsInt(n) ==
    [kind |-> "number", neg |-> (n < 0),
     mant |-> (IF n < 0 THEN 0 - n ELSE n), exp |-> 0]
JsString(chars) == [kind |-> "string", chars |-> chars]

\* the values setOrdinalIndicators is applied to: the small integers, the
\* integers around 10^21, negative integers, fractions, NaN and strings
OrdinalInputs ==
    {JsInt(n) : n \in 0..MaxOrdinal}
    \cup [kind : {"number"}, neg : {FALSE}, mant : {1, 11, 13, 21},
          exp : MinBigExp..MaxBigExp]
    \cup {JsInt(-1), JsInt(-11), JsInt(-22)}
    \cup [kind : {"number"}, neg : BOOLEAN, mant : {5, 15, 111},
          exp : {-1, -2, -9}]
    \cup {[kind |-> "NaN"]}
    \cup {JsString(chars) : chars \in
            {<< >>, << "1", "2" >>, << "0", "0", "7" >>, << "1", "1", "3" >>,
             << "a", "b", "c" >>, << "-", "1" >>, << "1", ".", "5" >>,
             << "1", "s", "t" >>, << " ", "1" >>, << "1", "e", "3" >>}}

\* the argument is a (year, month) of the calendar math
OfCalendarMath == "year" \in DOMAIN mathArg

InitMath ==
    /\ today \in Todays
    /\ mathArg \in [year : MathYears, month : MathMonths]
                    \cup [number : OrdinalInputs]
    /\ mathRes = [op |-> "none"]
    /\ InitSelection
    /\ InitPage
    /\ toConstruct = << >>
    /\ sinkKind = "absent"

ApplyDaysCount ==
    /\ mathRes.op = "none"
    /\ OfCalendarMath
    /\ mathRes' = [op |-> "getDaysCountInAMonth",
                   value |-> getDaysCountInAMonth(mathArg.year, mathArg.month)]
    /\ UNCHANGED << today, mathArg, selVars, pageVars >>

ApplyDayOfMonthStart ==
    /\ mathRes.op = "none"
    /\ OfCalendarMath
    /\ mathRes' = [op |-> "getDayOfMonthStart",
                   value |-> getDayOfMonthStart(mathArg.year, mathArg.month)]
    /\ UNCHANGED << today, mathArg, selVars, pageVars >>

ApplyMonthTable ==
    /\ mathRes.op = "none"
    /\ OfCalendarMath
    /\ \E useAs \in {"showcase", "input"} :
          mathRes' = [op |-> "monthTableBody", useAs |-> useAs,
                      value |-> monthTableBody(mathArg.year, mathArg.month,
                                               useAs)]
    /\ UNCHANGED << today, mathArg, selVars, pageVars >>

\* lc.js 879-1040: the tables of the body #setCalendar builds for a validated
\* year and month on browse, compact (one table) or expanded (twelve)
ApplyCalendarBody ==
    /\ mathRes.op = "none"
    /\ OfCalendarMath
    /\ mathArg.month \in 1..12
    /\ mathArg.year >= oldestYear /\ mathArg.year <= newestYear
    /\ \E useAs \in {"showcase", "input"}, setExpanded \in BOOLEAN :
          LET body == calendarBody([yearOnBrowse |-> mathArg.year,
                                    monthOnBrowse |-> mathArg.month,
                                    setExpanded |-> setExpanded,
                                    useAs |-> useAs])
          IN  mathRes' = [op |-> "calendarBody", useAs |-> useAs,
                          setExpanded |-> setExpanded,
                          months |-> body.months,
                          value |-> [k \in DOMAIN body.months |->
                                        bodyTable(body, k)]]
    /\ UNCHANGED << today, mathArg, selVars, pageVars >>

ApplyOrdinalIndicators ==
    /\ mathRes.op = "none"
    /\ ~OfCalendarMath
    /\ mathRes' = [op |-> "setOrdinalIndicators",
                   value |-> setOrdinalIndicators(mathArg.number)]
    /\ UNCHANGED << today, mathArg, selVars, pageVars >>

NextMath ==
    \/ ApplyDaysCount
    \/ ApplyDayOfMonthStart
    \/ ApplyMonthTable
    \/ ApplyCalendarBody
    \/ ApplyOrdinalIndicators

SpecMath == InitMath /\ [][NextMath]_vars

---------------------------------------------------------------------------
(* SpecCtor: new lcsCalendar(config) on a page with no calendar yet, for
   configs around the edges of what the constructor accepts *)

Near(y) == (y - EdgeWidth)..(y + EdgeWidth)

\* the years given: 0, and those near 100 years ago, this year and 10 years
\* from now
CtorYears(t) == {0} \cup Near(t.year - 100) \cup Near(t.year)
                    \cup Near(t.year + 10)

CtorMonths == {0, 1, 12} \cup (13..MaxMathMonth)

CtorPurposes == {"showcase", "input", "display"}

\* every field given but the callback; or the years and the month left out
CtorConfigs(t) ==
    [omit : {{"conclusionCallback"}},
     year : CtorYears(t), month : CtorMonths,
     yearStart : CtorYears(t), yearEnd : CtorYears(t),
     purpose : CtorPurposes, flexible : {FALSE}, expanded : {FALSE},
     conclusionCallback : {""}]
    \cup
    [omit : {{"year", "month", "yearStart", "yearEnd"},
             {"year", "month", "yearStart", "yearEnd", "conclusionCallback"}},
     year : {0}, month : {0}, yearStart : {0}, yearEnd : {0},
     purpose : CtorPurposes, flexible : BOOLEAN, expanded : BOOLEAN,
     conclusionCallback : {"handleDateSelection", "notAFunction"}]

InitCtor ==
    /\ today \in Todays
    /\ mathArg = [year |-> 0, month |-> 0]
    /\ mathRes = [op |-> "none"]
    /\ InitSelection
    /\ InitPage
    /\ sinkKind = "absent"
    /\ \E config \in CtorConfigs(today) : toConstruct = << config >>

NextCtor == Construct

SpecCtor == InitCtor /\ [][NextCtor]_vars

---------------------------------------------------------------------------
(* The calendar the claims are measured against *)

\* the proleptic Gregorian weekday (1 = Sunday .. 7 = Saturday) of the 1st of
\* a month, counted from Monday 1 January of year 1
GregorianWeekdayOfFirst(year, month) ==
    LET y == year - 1
        leapBefore == (y \div 4) - (y \div 100) + (y \div 400)
        feb == IF (year % 400 = 0) \/ (year % 4 = 0 /\ year % 100 # 0)
               THEN 29 ELSE 28
        len == << 31, feb, 31, 30, 31, 30, 31, 31, 30, 31, 30, 31 >>
        before[m \in 1..12] == IF m = 1 THEN 0 ELSE before[m - 1] + len[m - 1]
    IN  ((365 * y + leapBefore + before[month] + 1) % 7) + 1

OneTo(n) == [i \in 1..n |-> i]

MathValid ==
    OfCalendarMath /\ mathArg.year >= 1 /\ mathArg.month \in 1..12

\* the years the constructor accepts (lc.js 695)
MathInWindow ==
    /\ OfCalendarMath
    /\ mathArg.month \in 1..12
    /\ mathArg.year >= oldestYear
    /\ mathArg.year <= newestYear

---------------------------------------------------------------------------
(* Claims about the calendar math (checked under SpecMath) *)

\* C1: for every valid (year, month) the month table holds the day numbers
\* 1..getDaysCountInAMonth(year, month), each exactly once and in ascending
\* order across its rows, so the number of day cells equals that count.
C1_EveryDayOnce ==
    (mathRes.op = "monthTableBody" /\ MathValid) =>
        LET days == DayNumbers(Flatten(mathRes.value))
            count == getDaysCountInAMonth(mathArg.year, mathArg.month)
        IN  /\ days = OneTo(count)
            /\ Len(days) = count

\* C1 witness: the table of February 2024 (29 days, with a remainder row)
\* has been built
C1_Witness ==
    /\ mathRes.op = "monthTableBody"
    /\ mathArg = [year |-> 2024, month |-> 2]
    /\ Len(DayNumbers(Flatten(mathRes.value))) = 29
    /\ Len(mathRes.value) = 5

\* C2: for every (year, month) a calendar can show, the first row of the
\* month table is firstWeekday - 1 empty cells followed by the day cells
\* 1..(7 - (firstWeekday - 1)), where firstWeekday is the weekday of the 1st
\* (Sunday = 1): day 1 sits in the column of its weekday.
C2_FirstRowAlignment ==
    (mathRes.op = "monthTableBody" /\ MathInWindow) =>
        LET start == GregorianWeekdayOfFirst(mathArg.year, mathArg.month)
            row == mathRes.value[1]
        IN  /\ start = getDayOfMonthStart(mathArg.year, mathArg.month)
            /\ Len(row) = 7
            /\ \A i \in 1..7 :
                  IF i <= start - 1 THEN row[i] = emptyCell
                  ELSE row[i].date = i - (start - 1)

\* C2 witness: a built table whose month starts on a Thursday (February
\* 2024): four empty cells, then the days 1, 2, 3
C2_Witness ==
    /\ mathRes.op = "monthTableBody"
    /\ MathInWindow
    /\ mathArg = [year |-> 2024, month |-> 2]
    /\ DayNumbers(mathRes.value[1]) = << 1, 2, 3 >>
    /\ mathRes.value[1][4] = emptyCell

\* C3: for every year and month in 1..12, getDaysCountInAMonth is 31 for
\* months {1,3,5,7,8,10,12}, 30 for {4,6,9,11}, and for month 2 it is 29
\* exactly when (year % 4 = 0 and year % 100 # 0) or year % 400 = 0, else 28;
\* 2000 and 2024 are leap, 1900 and 2023 are not.
C3_DaysCount ==
    (mathRes.op = "getDaysCountInAMonth" /\ mathArg.month \in 1..12) =>
        LET y == mathArg.year
            m == mathArg.month
            leap == (y % 4 = 0 /\ y % 100 # 0) \/ (y % 400 = 0)
        IN  /\ m \in {1, 3, 5, 7, 8, 10, 12} => mathRes.value = 31
            /\ m \in {4, 6, 9, 11} => mathRes.value = 30
            /\ m = 2 => mathRes.value = (IF leap THEN 29 ELSE 28)
            /\ (m = 2 /\ y \in {2000, 2024}) => mathRes.value = 29
            /\ (m = 2 /\ y \in {1900, 2023}) => mathRes.value = 28

\* C3 witness: getDaysCountInAMonth(1900, 2) has been computed, and is 28
C3_Witness ==
    /\ mathRes.op = "getDaysCountInAMonth"
    /\ mathArg = [year |-> 1900, month |-> 2]
    /\ mathRes.value = 28

\* C4 (as claimed): for every year >= 1 and month in 1..12,
\* getDayOfMonthStart returns the proleptic Gregorian weekday (1 = Sunday ..
\* 7 = Saturday) of the 1st of that month of that year.
C4_WeekdayOfFirst ==
    (mathRes.op = "getDayOfMonthStart" /\ MathValid) =>
        /\ mathRes.value \in 1..7
        /\ mathRes.value =
               GregorianWeekdayOfFirst(mathArg.year, mathArg.month)

---------------------------------------------------------------------------
(* Claims about the selection and its conclusion (checked under Spec) *)

\* the step is a click on Done that ran defaultConclusionCallback
DoneRanDefault == outcome'.ev = "done" /\ outcome'.result # "custom"

\* the calendar the step removed from the document
RemovedByStep == InDoc(cal) \ InDoc(cal')

NamesYear(error) ==
    error \in {conclusionError("noYear"), conclusionError("throwYear")}
NamesMonth(error) ==
    error \in {conclusionError("noMonth"), conclusionError("throwMonth")}
NamesDay(error) == error = conclusionError("noDate")

C6_YearMonthOnly ==
    [][(DoneRanDefault /\ yearSelected /\ monthSelected /\ ~dateSelected) =>
        /\ outcome'.result = "returned"
        /\ NamesDay(outcome'.error)
        /\ sinks'.selection = << >>
        /\ selectionValue' = null
        /\ cal'[FirstOf(ActiveCalendars(cal'))].inDoc
        /\ InDoc(cal') = InDoc(cal)]_vars

\* C6 witness: Done was clicked with a year and a month selected and no day
C6_Witness ==
    /\ outcome.ev = "done"
    /\ outcome.result = "returned"
    /\ NamesDay(outcome.error)
    /\ yearSelected /\ monthSelected /\ ~dateSelected
    /\ outcome.had.year # null /\ outcome.had.month # null

C9_OnlyViaDay ==
    [][/\ outcome'.result = "delivered" =>
            /\ dateSelected
            /\ chosen.date # null
            /\ selectedDateValue = chosen.date
       /\ outcome'.ev \in {"year", "month"} =>
            /\ dateSelected' = dateSelected
            /\ outcome'.result # "delivered"
       /\ (dateSelected' /\ ~dateSelected) => outcome'.ev = "date"]_vars

\* C9 witness: a selection was delivered after a year, a month and a day
\* were chosen
C9_Witness ==
    /\ outcome.result = "delivered"
    /\ outcome.had.year # null
    /\ outcome.had.month # null
    /\ outcome.had.date # null
    /\ ~dateSelected

\* C10 (as claimed): the set fields form a prefix of (year, month, day):
\* month is never set while year is unset, day never while year or month is.
C10_PrefixOrder ==
    /\ monthSelected => yearSelected
    /\ dateSelected => (yearSelected /\ monthSelected)

\* the step is a click of kind ev in an input calendar, the receiving
\* elements being inputs or absent
SelectionClick(ev) ==
    /\ outcome'.ev = ev
    /\ sinkKind # "other"
    /\ cal'[FirstOf(ActiveCalendars(cal'))].cpurpose = "input"

\* C10 (amended): the selections take effect in any order: a month selection
\* sets the month whether or not a year is set and a day selection sets the
\* day whether or not a year and a month are set, each leaving the other
\* two fields as they were.
C10_AnyOrder ==
    [][/\ SelectionClick("year") =>
            /\ yearSelected' /\ selectedYearValue' # null
            /\ UNCHANGED << monthSelected, dateSelected >>
       /\ SelectionClick("month") =>
            /\ monthSelected' /\ selectedMonthValue' # null
            /\ UNCHANGED << yearSelected, dateSelected >>
       /\ SelectionClick("date") =>
            /\ dateSelected' /\ selectedDateValue' # null
            /\ UNCHANGED << yearSelected, monthSelected >>]_vars

\* C10 witness: a day is selected while neither a year nor a month is
C10_Witness ==
    /\ outcome.ev = "date"
    /\ dateSelected /\ ~yearSelected /\ ~monthSelected
    /\ selectedDateValue # null

---------------------------------------------------------------------------
(* Claims about the conclusion callback, the constructor and the click
   listener *)

\* C11 (as claimed): every invocation of the caller's conclusion callback
\* (a function of the page named in the config) on a Done click happens in a
\* state where a year, a month and a day have all been selected.
C11_CallbackAfterSelection ==
    [][(outcome'.ev = "done" /\ outcome'.result = "custom") =>
            (yearSelected /\ monthSelected /\ dateSelected)]_vars

\* what new lcsCalendar was given, an omitted field being its default
Given(field, default) == Arg(instance.config, field, default)

ConstructorRan == outcome.ev = "construct" /\ instance # NoInstance

\* C12 (as claimed): construction with integer inputs throws, producing no
\* calendar, whenever month is outside 1..12, or year is outside
\* [currentYear-100, currentYear+10], or yearStart is below currentYear-100,
\* or yearEnd is above currentYear+10, or purpose is neither 'showcase' nor
\* 'input'.
C12_RejectsOutOfRange ==
    ConstructorRan =>
        LET year == Given("year", currentYear)
            month == Given("month", currentMonth)
            yearStart == Given("yearStart", oldestYear)
            yearEnd == Given("yearEnd", nextYear)
            purpose == Given("purpose", "showcase")
        IN  (\/ month \notin 1..12
             \/ year < currentYear - 100 \/ year > currentYear + 10
             \/ yearStart < currentYear - 100
             \/ yearEnd > currentYear + 10
             \/ purpose \notin {"showcase", "input"})
            => (/\ ~instance.made
                /\ outcome.result = "threw"
                /\ cal = << >>)

\* C13: every successfully constructed calendar renders validated values:
\* data-mob in 1..12, data-cys <= data-yob <= data-cye, both data-cys and
\* data-cye within [currentYear-100, currentYear+10], and data-cpurpose
\* 'showcase' or 'input'.
C13_ValidatedValues ==
    (ConstructorRan /\ instance.made) =>
        /\ Len(cal) = 1
        /\ LET el == cal[1]
           IN  /\ el.body.mob \in 1..12
               /\ el.lomMob = {el.body.mob}
               /\ el.cys <= el.body.yob /\ el.body.yob <= el.cye
               /\ el.loyYob = {el.body.yob}
               /\ el.cys >= currentYear - 100 /\ el.cys <= currentYear + 10
               /\ el.cye >= currentYear - 100 /\ el.cye <= currentYear + 10
               /\ el.cpurpose \in {"showcase", "input"}
               /\ el.body.useAs = el.cpurpose

\* C13 witness: a calendar was constructed from a year start given above the
\* year to browse, and renders the year on browse as its data-cys
C13_Witness ==
    /\ ConstructorRan /\ instance.made
    /\ "yearStart" \notin instance.config.omit
    /\ instance.config.yearStart > instance.config.year
    /\ cal[1].cys = instance.config.year
    /\ cal[1].body.yob = instance.config.year

\* C14 (as claimed): the only silent adjustments at construction are that the
\* year range start is raised to the year on browse if given lower, and the
\* year range end lowered to it if given higher; otherwise the bounds are
\* kept as given.
C14_ClampsAsStated ==
    (ConstructorRan /\ instance.made) =>
        LET year == Given("year", currentYear)
            yearStart == Given("yearStart", oldestYear)
            yearEnd == Given("yearEnd", nextYear)
        IN  /\ cal[1].cys = (IF yearStart < year THEN year ELSE yearStart)
            /\ cal[1].cye = (IF yearEnd > year THEN year ELSE yearEnd)

\* C14 (amended): the year range start is lowered to the year on browse if
\* given higher, and the year range end raised to it if given lower, a start
\* of 0 being read as 2020 and an end of 0 as next year; otherwise the bounds
\* are kept as given, and the year, the month and the purpose always are.
C14_ClampsOfTheCode ==
    (ConstructorRan /\ instance.made) =>
        LET year == Given("year", currentYear)
            yearStart == Given("yearStart", oldestYear)
            yearEnd == Given("yearEnd", nextYear)
            startRead == IF yearStart = 0 THEN 2020 ELSE yearStart
            endRead == IF yearEnd = 0 THEN currentYear + 1 ELSE yearEnd
        IN  /\ cal[1].cys = (IF startRead > year THEN year ELSE startRead)
            /\ cal[1].cye = (IF endRead < year THEN year ELSE endRead)
            /\ instance.validated.yearStartFrom = cal[1].cys
            /\ instance.validated.yearEndAt = cal[1].cye
            /\ cal[1].body.yob = year
            /\ cal[1].body.mob = Given("month", currentMonth)
            /\ cal[1].cpurpose = Given("purpose", "showcase")

\* C14 witness: a calendar was constructed from a year end given below the
\* year to browse and a year start given below it too: the end was raised,
\* the start kept
C14_Witness ==
    /\ ConstructorRan /\ instance.made
    /\ instance.config.omit = {"conclusionCallback"}
    /\ instance.config.yearEnd # 0
    /\ instance.config.yearEnd < instance.config.year
    /\ instance.config.yearStart # 0
    /\ instance.config.yearStart < instance.config.year
    /\ cal[1].cye = instance.config.year
    /\ cal[1].cys = instance.config.yearStart

\* C19 (as claimed): once the constructor has validated the inputs, the
\* instance's yearStartFrom, yearEndAt, yearOnBrowse, monthOnBrowse and useAs
\* keep their validated values through #setCalendar and afterwards.
C19_ConfigImmutable ==
    (ConstructorRan /\ instance.made) =>
        /\ instance.returned.yearStartFrom = instance.validated.yearStartFrom
        /\ instance.returned.yearEndAt = instance.validated.yearEndAt
        /\ instance.returned.yearOnBrowse = instance.validated.yearOnBrowse
        /\ instance.returned.monthOnBrowse = instance.validated.monthOnBrowse
        /\ instance.returned.useAs = instance.validated.useAs

\* the kinds of click with event.target inside a calendar
ClicksInside == {"year", "month", "toggle", "date", "done", "inside"}

C16_OwnedByOneCalendar ==
    [][/\ outcome'.result = "delivered" /\ outcome'.ev = "done" =>
            /\ chosen.dateIn = outcome'.target
            /\ chosen.monthIn \in {0, outcome'.target}
            /\ chosen.yearIn \in {0, outcome'.target}
       /\ outcome'.ev \in {"year", "month", "date"} =>
            /\ chosen.yearIn \notin {0, outcome'.target} =>
                    selectedYearValue' = selectedYearValue
            /\ chosen.monthIn \notin {0, outcome'.target} =>
                    selectedMonthValue' = selectedMonthValue
            /\ chosen.dateIn \notin {0, outcome'.target} =>
                    selectedDateValue' = selectedDateValue]_vars

\* C17 (as claimed): a calendar constructed with purpose 'showcase' is
\* read-only: no click on its year buttons, month buttons, day cells or
\* toggle changes yearSelected, monthSelected, dateSelected or the three
\* selected values, and it offers no Done button.
C17_ShowcaseReadOnly ==
    [][(outcome'.ev \in ClicksInside
            /\ cal[outcome'.target].cpurpose = "showcase") =>
        /\ outcome'.ev # "done"
        /\ ~cal[outcome'.target].CSDB
        /\ UNCHANGED << yearSelected, monthSelected, dateSelected,
                        selectedYearValue, selectedMonthValue,
                        selectedDateValue >>]_vars

---------------------------------------------------------------------------
(* Claims about the cells of the month table (checked under SpecMath) *)

\* C18: in every built month table a day cell is selectable (data-cdate and
\* class calendarDate) if and only if the purpose is 'input', in the first
\* row, the full-week rows and the remainder row alike, and an empty padding
\* cell is never selectable.
C18_SelectableIffInput ==
    (mathRes.op = "monthTableBody" /\ MathValid) =>
        \A r \in DOMAIN mathRes.value :
            \A i \in DOMAIN mathRes.value[r] :
                LET cell == mathRes.value[r][i]
                IN  /\ cell.date # 0 =>
                          (cell.calendarDate <=> mathRes.useAs = "input")
                    /\ cell.date = 0 => ~cell.calendarDate

\* C18 witness: the table of February 2024 was built for 'input': its first
\* row has padding, its last row is a remainder row, and day 1, day 10 and
\* day 29 are selectable
C18_Witness ==
    /\ mathRes.op = "monthTableBody"
    /\ mathRes.useAs = "input"
    /\ mathArg = [year |-> 2024, month |-> 2]
    /\ Len(mathRes.value) = 5
    /\ mathRes.value[1][1] = emptyCell
    /\ mathRes.value[1][5].date = 1 /\ mathRes.value[1][5].calendarDate
    /\ mathRes.value[2][7].date = 10 /\ mathRes.value[2][7].calendarDate
    /\ Len(mathRes.value[5]) = 5
    /\ mathRes.value[5][5].date = 29 /\ mathRes.value[5][5].calendarDate

\* the cells of a built body marked DOT, as (table, row, column)
CellsOfToday ==
    {p \in UNION {UNION {{<< k, r, i >> : i \in DOMAIN mathRes.value[k][r]} :
                            r \in DOMAIN mathRes.value[k]} :
                    k \in DOMAIN mathRes.value} :
        mathRes.value[p[1]][p[2]][p[3]].DOT}

\* C20: a day cell is marked DOT exactly when its day, its month and its year
\* equal currentDate, currentMonth and currentYear; so a rendered body,
\* compact or expanded, has at most one cell marked, and none when the year
\* on browse is not the current year.
C20_TodayMarked ==
    mathRes.op = "calendarBody" =>
        /\ \A k \in DOMAIN mathRes.value :
             \A r \in DOMAIN mathRes.value[k] :
               \A i \in DOMAIN mathRes.value[k][r] :
                 LET cell == mathRes.value[k][r][i]
                 IN  cell.DOT <=> (/\ cell.date # 0
                                   /\ cell.date = today.date
                                   /\ mathRes.months[k] = today.month
                                   /\ mathArg.year = today.year)
        /\ Cardinality(CellsOfToday) <= 1
        /\ mathArg.year # today.year => CellsOfToday = {}

\* C20 witness: the expanded body of 2024 built on 29 February 2024: the one
\* cell marked is day 29 of the February table
C20_Witness ==
    /\ mathRes.op = "calendarBody"
    /\ mathRes.setExpanded
    /\ today = [year |-> 2024, month |-> 2, date |-> 29]
    /\ mathArg.year = 2024
    /\ CellsOfToday = {<< 2, 5, 5 >>}
    /\ mathRes.value[2][5][5].date = 29

---------------------------------------------------------------------------
(* Claims about setOrdinalIndicators and malformed arguments (checked under
   SpecMath) *)

\* the argument is a Number that is a non-negative integer
NonNegativeInteger(v) == v.kind = "number" /\ ~v.neg /\ v.exp >= 0

\* the decimal digits of the non-negative integer mant * 10^exp
DecimalDigits(v) ==
    IF v.mant = 0 THEN << "0" >> ELSE DigitsOf(v.mant) \o Zeros(v.exp)

\* the suffix of the claim, from the last two decimal digits
SuffixOf(digits) ==
    LET len == Len(digits)
        last == digits[len]
        teens == len >= 2 /\ digits[len - 1] = "1"
                          /\ last \in {"1", "2", "3"}
    IN  IF teens THEN << "t", "h" >>
        ELSE IF last = "1" THEN << "s", "t" >>
        ELSE IF last = "2" THEN << "n", "d" >>
        ELSE IF last = "3" THEN << "r", "d" >>
        ELSE << "t", "h" >>

\* C21 (as claimed): for every non-negative integer n, setOrdinalIndicators(n)
\* returns the decimal digits of n followed by "th" when the last two digits
\* are in 11..13, and otherwise by "st", "nd" or "rd" for a last digit 1, 2
\* or 3 and "th" for any other.
C21_OrdinalOfEveryInteger ==
    (mathRes.op = "setOrdinalIndicators"
            /\ NonNegativeInteger(mathArg.number)) =>
        /\ mathRes.value.kind = "ordinal"
        /\ mathRes.value.chars =
                DecimalDigits(mathArg.number)
                    \o SuffixOf(DecimalDigits(mathArg.number))

\* the table of February 2024 has been built
FebruaryLeapTable ==
    /\ mathRes.op = "monthTableBody"
    /\ mathArg = [year |-> 2024, month |-> 2]

\* C22 (as claimed): the month table built for year 2024, month 2 has exactly
\* 5 rows, and its last row has exactly 1 day cell.
C22_LastRowOneDay ==
    FebruaryLeapTable =>
        /\ Len(mathRes.value) = 5
        /\ Len(DayNumbers(mathRes.value[Len(mathRes.value)])) = 1

\* C22 (amended): the month table built for year 2024, month 2 has exactly
\* 5 rows; its first row has 4 empty cells and the days 1..3, and its last
\* row has exactly 5 day cells, the days 25..29.
C22_LastRowFiveDays ==
    FebruaryLeapTable =>
        /\ Len(mathRes.value) = 5
        /\ DayNumbers(mathRes.value[1]) = << 1, 2, 3 >>
        /\ Len(mathRes.value[1]) = 7
        /\ DayNumbers(mathRes.value[5]) = << 25, 26, 27, 28, 29 >>
        /\ Len(mathRes.value[5]) = 5

\* C22 witness: the table of February 2024 has been built for an input
\* calendar and its last row ends with the 29th
C22_Witness ==
    /\ FebruaryLeapTable
    /\ mathRes.useAs = "input"
    /\ mathRes.value[Len(mathRes.value)][5].date = 29

\* the number of leading empty cells of a row
RECURSIVE LeadingEmpties(_)
LeadingEmpties(row) ==
    IF row = << >> \/ IsDateCell(Head(row)) THEN 0
    ELSE 1 + LeadingEmpties(Tail(row))

\* every cell of the row holds a day
AllDays(row) == \A i \in DOMAIN row : IsDateCell(row[i])

\* C23: for every valid (year, month) the first row of the month table has
\* exactly 7 cells, leading empty cells and then days; every row strictly
\* between the first and the last has exactly 7 day cells; when the days left
\* after the first row are not a multiple of 7 the last row holds exactly the
\* 1..6 days left over and no empty cell, and otherwise the last row is a
\* full row of 7 days too; no row is empty.
C23_RowShape ==
    (mathRes.op = "monthTableBody" /\ MathValid) =>
        LET rows == mathRes.value
            first == rows[1]
            last == rows[Len(rows)]
            firstDays == 7 - LeadingEmpties(first)
            rest == getDaysCountInAMonth(mathArg.year, mathArg.month)
                        - firstDays
        IN  /\ Len(rows) >= 2
            /\ Len(first) = 7
            /\ firstDays >= 1
            /\ \A i \in (LeadingEmpties(first) + 1)..7 : IsDateCell(first[i])
            /\ \A r \in 2..(Len(rows) - 1) :
                    Len(rows[r]) = 7 /\ AllDays(rows[r])
            /\ AllDays(last)
            /\ Len(last) = (IF rest % 7 = 0 THEN 7 ELSE rest % 7)
            /\ Len(rows) = 1 + (rest \div 7)
                             + (IF rest % 7 = 0 THEN 0 ELSE 1)
            /\ \A r \in DOMAIN rows : Len(rows[r]) >= 1

\* C23 witness: a table of six rows has been built: a first row, four full
\* rows and a short last row
C23_Witness ==
    /\ mathRes.op = "monthTableBody"
    /\ MathValid
    /\ Len(mathRes.value) = 6
    /\ Len(mathRes.value[6]) \in 1..6
    /\ Len(mathRes.value[5]) = 7

\* a table without a short row has been built
C23_NoShortRow ==
    /\ mathRes.op = "monthTableBody"
    /\ MathValid
    /\ Len(mathRes.value[Len(mathRes.value)]) = 7

\* the value denotes a non-negative integer: a Number that is one, or a
\* string of decimal digits (the function's "integer or numeric string")
DenotesNonNegativeInteger(v) ==
    \/ NonNegativeInteger(v)
    \/ v.kind = "string" /\ isDigitsOnly(v.chars)

\* C24: malformed arguments give an error result, never a valid-looking
\* value: for a month outside 1..12 getDaysCountInAMonth returns 0, which is
\* no day count in 28..31; for a month outside 1..12 or a year below 1
\* getDayOfMonthStart returns false, which is no weekday in 1..7; and for an
\* input that denotes no non-negative integer setOrdinalIndicators returns
\* its error message and no suffixed number. Each call returns.
C24_MalformedGivesError ==
    /\ (mathRes.op = "getDaysCountInAMonth"
            /\ mathArg.month \notin 1..12) =>
          (mathRes.value = 0 /\ mathRes.value \notin 28..31)
    /\ (mathRes.op = "getDayOfMonthStart"
            /\ (mathArg.month \notin 1..12 \/ mathArg.year < 1)) =>
          (mathRes.value = JsFalse /\ mathRes.value \notin 1..7)
    /\ (mathRes.op = "setOrdinalIndicators"
            /\ ~DenotesNonNegativeInteger(mathArg.number)) =>
          (mathRes.value =
              [kind |-> "message",
               text |-> "Error: Input is not a valid number."])

\* C24 witness: setOrdinalIndicators(-1) has returned its error message
C24_Witness ==
    /\ mathRes.op = "setOrdinalIndicators"
    /\ mathArg.number = JsInt(-1)
    /\ mathRes.value.kind = "message"

\* getDaysCountInAMonth and getDayOfMonthStart have returned for month 13
C24_MonthThirteen ==
    /\ mathRes.op \in {"getDaysCountInAMonth", "getDayOfMonthStart"}
    /\ mathArg.month = 13
    /\ mathRes.value = 0

---------------------------------------------------------------------------
(* Claims about the delivered date and the selection state (checked under
   Spec) *)

\* C25 (as claimed): after any sequence of year, month and day clicks on an
\* input calendar a successful finalize delivers a real calendar date: the
\* delivered day d, month m and year y satisfy 1 <= m <= 12 and
\* 1 <= d <= getDaysCountInAMonth(y, m), the month and year being those of
\* the grid the day was clicked in.
C25_RealDate ==
    outcome.result = "delivered" =>
        LET d == outcome.value[1]
            m == outcome.value[2]
            y == outcome.value[3]
        IN  /\ m \in 1..12
            /\ d >= 1
            /\ d <= getDaysCountInAMonth(y, m)

\* the step is a finalize that returned early: a field is missing or no
\* calendar is active
FinalizeFailed ==
    /\ outcome'.ev \in {"done", "call"}
    /\ outcome'.result = "returned"

\* C26 (as claimed): a failed finalize, defaultConclusionCallback returning
\* early because a field is missing or no calendar is active, leaves the
\* whole selection state unchanged (the three flags, the three values and
\* selectionValue are after the call what they were before it) and writes no
\* input sink.
C26_FailedFinalizeChangesNothing ==
    [][FinalizeFailed =>
        /\ yearSelected' = yearSelected
        /\ monthSelected' = monthSelected
        /\ dateSelected' = dateSelected
        /\ selectedYearValue' = selectedYearValue
        /\ selectedMonthValue' = selectedMonthValue
        /\ selectedDateValue' = selectedDateValue
        /\ selectionValue' = selectionValue
        /\ sinks' = NoSinks]_vars

\* C27 (as claimed): in every reachable state the selection flags and values
\* agree: yearSelected is true iff selectedYearValue is non-null,
\* monthSelected is true iff selectedMonthValue is non-null, and dateSelected
\* is true iff selectedDateValue is non-null.
C27_FlagsAgreeWithValues ==
    /\ yearSelected <=> (selectedYearValue # null)
    /\ monthSelected <=> (selectedMonthValue # null)
    /\ dateSelected <=> (selectedDateValue # null)

---------------------------------------------------------------------------
(* Claims about navigation (checked under Spec) *)

\* the year and the month on browse of calendar c of the document cals, as
\* its header marks them (the year button and the month button carrying
\* data-yob and data-mob)
browseYear(cals, c) == FirstOf(cals[c].loyYob)
browseMonth(cals, c) == FirstOf(cals[c].lomMob)

\* the header and the body of calendar c show the same year and month, and
\* the body is expanded as data-cexpanded says
HeaderAndBodyAgree(cals, c) ==
    /\ Cardinality(cals[c].loyYob) = 1
    /\ Cardinality(cals[c].lomMob) = 1
    /\ cals[c].lomYob = browseYear(cals, c)
    /\ cals[c].body.yob = browseYear(cals, c)
    /\ cals[c].body.mob = browseMonth(cals, c)
    /\ (Len(cals[c].body.months) = 12) <=> toBoolean(cals[c].cexpanded)

\* the step is a click on a year button, a month button or the toggle of
\* calendar c, whose header and body agreed
Navigates(c) ==
    /\ outcome'.ev \in {"year", "month", "toggle"}
    /\ outcome'.target = c
    /\ HeaderAndBodyAgree(cal, c)

\* C28: a year, month or toggle click on a calendar leaves its data-cys,
\* data-cye, data-cpurpose and data-cflexible what they were (and so does
\* every step that leaves the calendar in the document: they stay what the
\* construction set); after the click the year on browse is within
\* data-cys..data-cye and the month on browse within 1..12, in the header and
\* in the body alike; a month click leaves the year on browse unchanged, and
\* a toggle click flips expanded and leaves the year and the month on browse
\* unchanged.
C28_NavigationKeepsConfig ==
    [][\A c \in InDoc(cal) :
        /\ c \in InDoc(cal') =>
              /\ cal'[c].cys = cal[c].cys
              /\ cal'[c].cye = cal[c].cye
              /\ cal'[c].cpurpose = cal[c].cpurpose
              /\ cal'[c].cflexible = cal[c].cflexible
        /\ Navigates(c) =>
              /\ c \in InDoc(cal')
              /\ HeaderAndBodyAgree(cal', c)
              /\ cal'[c].cys <= browseYear(cal', c)
              /\ browseYear(cal', c) <= cal'[c].cye
              /\ browseMonth(cal', c) \in 1..12
              /\ outcome'.ev = "month" =>
                    /\ browseYear(cal', c) = browseYear(cal, c)
                    /\ cal'[c].cexpanded = cal[c].cexpanded
              /\ outcome'.ev = "year" =>
                    cal'[c].cexpanded = cal[c].cexpanded
              /\ outcome'.ev = "toggle" =>
                    /\ browseYear(cal', c) = browseYear(cal, c)
                    /\ browseMonth(cal', c) = browseMonth(cal, c)
                    /\ toBoolean(cal'[c].cexpanded)
                            = ~toBoolean(cal[c].cexpanded)]_vars

\* C28 witness: after a year click to next year and a month click, the toggle
\* was clicked: the calendar is expanded, with next year on browse in header
\* and body
C28_Witness ==
    /\ outcome.ev = "toggle"
    /\ outcome.target \in InDoc(cal)
    /\ HeaderAndBodyAgree(cal, outcome.target)
    /\ browseYear(cal, outcome.target) = currentYear + 1
    /\ browseMonth(cal, outcome.target) = 2
    /\ Len(cal[outcome.target].body.months) = 12
    /\ cal[outcome.target].cys = currentYear

\* C29: a click on a year button Y of a calendar sets its year on browse to
\* Y and its month on browse to the current month when Y is the current
\* year and to 1 otherwise, whatever month was on browse or selected before;
\* afterwards exactly one year button carries data-yob and exactly one month
\* button data-mob, and the body shows that year and month.
C29_YearClickResetsMonth ==
    [][\A c \in InDoc(cal) :
        (outcome'.ev = "year" /\ outcome'.target = c) =>
            /\ Cardinality(cal'[c].loyYob) = 1
            /\ Cardinality(cal'[c].lomMob) = 1
            /\ browseYear(cal', c) \in cal[c].loy
            /\ outcome'.result = "selected" =>
                    /\ browseYear(cal', c) = selectedYearValue'
                    /\ browseYear(cal', c) = chosen'.year
            /\ browseMonth(cal', c) =
                    (IF browseYear(cal', c) = currentYear
                     THEN currentMonth ELSE 1)
            /\ cal'[c].lomYob = browseYear(cal', c)
            /\ cal'[c].body.yob = browseYear(cal', c)
            /\ cal'[c].body.mob = browseMonth(cal', c)]_vars

\* C29 witness: with the month 2 selected before, next year was clicked:
\* next year and January are on browse
C29_Witness ==
    /\ outcome.ev = "year"
    /\ outcome.result = "selected"
    /\ chosen.month = 2
    /\ chosen.year = currentYear + 1
    /\ browseYear(cal, outcome.target) = currentYear + 1
    /\ browseMonth(cal, outcome.target) = 1

\* the current year was clicked with January on browse: the current month is
\* on browse again
C29_BackToCurrentMonth ==
    /\ outcome.ev = "year"
    /\ chosen.month = 1
    /\ chosen.year = currentYear
    /\ browseMonth(cal, outcome.target) = currentMonth
    /\ currentMonth # 1

\* the function a Done step invoked: window[doOnSelection] or, with
\* doOnSelection unset, defaultConclusionCallback (lc.js 1329-1333)
InvokedByDone ==
    IF outcome'.result = "custom" THEN doOnSelection
    ELSE "defaultConclusionCallback"

\* C30 (as claimed): the conclusion callback named when an input calendar is
\* constructed is the function a click on its Done button invokes, after any
\* year, month and toggle clicks on that calendar in between: navigation
\* never replaces the configured callback.
C30_ConfiguredCallbackInvoked ==
    [][(outcome'.ev = "done" /\ toConstruct = << >>) =>
            InvokedByDone =
                Given("conclusionCallback", "defaultConclusionCallback")]_vars

=============================================================================
